---- MODULE Spec2Model ----
(***************************************************************************)
(* Model of qlib/workflow/cli.py: the configuration resolution pipeline of *)
(* workflow() (template rendering, YAML loading, BASE_CONFIG_PATH          *)
(* resolution and merge, sys.path injection, experiment manager dispatch,  *)
(* training hand-off and persistence of the resolved configuration).       *)
(***************************************************************************)
EXTENDS Integers, Sequences, FiniteSets, TLC

(***************************************************************************)
(* Bounds of the model.                                                    *)
(***************************************************************************)
\* number of workflow() invocations explored in one behaviour
MaxRuns == 2

(***************************************************************************)
(* pathlib.  A path is [abs, segs]; Path(s) is the constructor on the      *)
(* path strings that occur in the modelled file system and configurations. *)
(***************************************************************************)
Rel(segs) == [abs |-> FALSE, segs |-> segs]

Abs(segs) == [abs |-> TRUE, segs |-> segs]

Path(s) ==
    CASE s = "/work"                        -> Abs(<<"work">>)
      [] s = "/opt/lib"                     -> Abs(<<"opt", "lib">>)
      [] s = "/proj/lib"                    -> Abs(<<"proj", "lib">>)
      [] s = "/proj/configs/base.yaml"      -> Abs(<<"proj", "configs", "base.yaml">>)
      [] s = "../lib"                       -> Rel(<<"..", "lib">>)
      [] s = "/proj/configs/child.yaml"     -> Abs(<<"proj", "configs", "child.yaml">>)
      [] s = "../proj/configs/child.yaml"   -> Rel(<<"..", "proj", "configs", "child.yaml">>)
      [] s = "/proj/configs/both.yaml"      -> Abs(<<"proj", "configs", "both.yaml">>)
      [] s = "/proj/configs/plain.yaml"     -> Abs(<<"proj", "configs", "plain.yaml">>)
      [] s = "/proj/configs/tmpl.yaml"      -> Abs(<<"proj", "configs", "tmpl.yaml">>)
      [] s = "/proj/configs/nobase.yaml"    -> Abs(<<"proj", "configs", "nobase.yaml">>)
      [] s = "/proj/configs/absent.yaml"    -> Abs(<<"proj", "configs", "absent.yaml">>)
      [] s = "/proj/configs/badtmpl.yaml"   -> Abs(<<"proj", "configs", "badtmpl.yaml">>)
      [] s = "/proj/configs/badyaml.yaml"   -> Abs(<<"proj", "configs", "badyaml.yaml">>)
      [] s = "/proj/configs/notask.yaml"    -> Abs(<<"proj", "configs", "notask.yaml">>)
      [] s = "/proj/configs/noinit.yaml"    -> Abs(<<"proj", "configs", "noinit.yaml">>)
      [] s = "/proj/configs/partial.yaml"   -> Abs(<<"proj", "configs", "partial.yaml">>)
      [] OTHER                              -> Rel(<<s>>)

RECURSIVE JoinSegs(_)
JoinSegs(segs) ==
    IF segs = <<>> THEN ""
    ELSE IF Len(segs) = 1 THEN segs[1]
    ELSE segs[1] \o "/" \o JoinSegs(Tail(segs))

\* str(path)
PathStr(p) ==
    IF p.abs THEN "/" \o JoinSegs(p.segs)
    ELSE IF p.segs = <<>> THEN "."
    ELSE JoinSegs(p.segs)

\* a / b and a.joinpath(b): an absolute right operand replaces the left one,
\* and no ".." segment is collapsed
JoinPath(a, b) ==
    IF b.abs THEN b ELSE [abs |-> a.abs, segs |-> a.segs \o b.segs]

\* path.parent
Parent(p) ==
    IF p.segs = <<>> THEN p
    ELSE [abs |-> p.abs, segs |-> SubSeq(p.segs, 1, Len(p.segs) - 1)]

\* os.getcwd()
Cwd == Abs(<<"work">>)

\* path.absolute(): made absolute against the cwd, not normalised
Absolute(p) == IF p.abs THEN p ELSE JoinPath(Cwd, p)

RECURSIVE Collapse(_, _)
Collapse(segs, acc) ==
    IF segs = <<>> THEN acc
    ELSE IF segs[1] = ".."
         THEN Collapse(Tail(segs), IF acc = <<>> THEN acc ELSE SubSeq(acc, 1, Len(acc) - 1))
         ELSE Collapse(Tail(segs), Append(acc, segs[1]))

\* path.resolve(): absolute with ".." collapsed (the file system has no symlinks)
Resolve(p) == Abs(Collapse(Absolute(p).segs, <<>>))

(***************************************************************************)
(* Configuration texts.  A text is a sequence of lines [ind, key, val]:    *)
(* `key: val' at indentation ind, or a sequence item `- val' (key "-").    *)
(* val is a sequence of tokens: literal text, a {{ name }} placeholder, or *)
(* an unterminated "{{" that the template engine rejects.                  *)
(***************************************************************************)
Lit(s) == [k |-> "lit", s |-> s]

Var(x) == [k |-> "var", s |-> x]

Bad == [k |-> "bad", s |-> "{{"]

L(ind, key, val) == [ind |-> ind, key |-> key, val |-> val]

KV(ind, key, s) == L(ind, key, <<Lit(s)>>)

K(ind, key) == L(ind, key, <<>>)

Item(ind, s) == L(ind, "-", <<Lit(s)>>)

TaskLines(wandb) ==
    << K(0, "task"), K(1, "model"), K(2, "kwargs"), L(3, "wandb", wandb) >>

ChildText ==
    << KV(0, "BASE_CONFIG_PATH", "base.yaml"),
       K(0, "b"), KV(1, "x", "9"),
       KV(0, "c", "3"),
       K(0, "marks"), Item(1, "m3"),
       K(0, "sys"), KV(1, "path", "/opt/lib"),
                    K(1, "rel_path"), Item(2, "../lib"), Item(2, "pkg") >>

BaseText ==
    << KV(0, "a", "1"),
       K(0, "b"), KV(1, "x", "1"), KV(1, "y", "2"),
       KV(0, "experiment_name", "base_exp"),
       KV(0, "BASE_CONFIG_PATH", "grand.yaml"),
       L(0, "note", <<Lit("n_"), Var("X")>>),
       K(0, "marks"), Item(1, "m1"), Item(1, "m2"),
       K(0, "qlib_init"), KV(1, "region", "cn"),
       KV(0, "wandb_name", "run1") >>
    \o TaskLines(<<Lit("true")>>)

GrandText == << KV(0, "g", "1"), KV(0, "a", "0") >>

BothText ==
    << KV(0, "BASE_CONFIG_PATH", "both_base.yaml"),
       L(0, "experiment_name", <<Var("X")>>) >>

BothBaseCwdText ==
    << KV(0, "origin", "cwd"),
       K(0, "qlib_init"), KV(1, "region", "cn") >>
    \o TaskLines(<<Lit("false")>>)

BothBaseConfText ==
    << KV(0, "origin", "confdir"),
       K(0, "qlib_init"), KV(1, "region", "us") >>
    \o TaskLines(<<Lit("false")>>)

PlainText ==
    << K(0, "qlib_init"), KV(1, "region", "cn"), KV(1, "exp_manager", "custom"),
       K(0, "sys"), K(1, "path"), Item(2, "/opt/lib"), Item(2, "/opt/lib"),
                    KV(1, "rel_path", "/opt/lib") >>
    \o TaskLines(<<>>)

TmplText ==
    << L(0, "BASE_CONFIG_PATH", <<Var("BASE")>>),
       L(0, "experiment_name", <<Lit("exp_"), Var("X")>>),
       K(0, "qlib_init"), L(1, "region", <<Var("X")>>), L(1, "exp_manager", <<Var("MGR")>>) >>
    \o TaskLines(<<Var("WANDB")>>)

NoBaseText ==
    << KV(0, "BASE_CONFIG_PATH", "missing.yaml"),
       K(0, "sys"), KV(1, "path", "/opt/lib"),
       K(0, "qlib_init"), KV(1, "region", "cn") >>
    \o TaskLines(<<>>)

BadTmplText == << KV(0, "a", "1"), L(0, "c", <<Lit("x"), Bad>>) >>

BadYamlText == << KV(0, "a", "1"), KV(0, "a", "2") >>

NoTaskText ==
    << K(0, "sys"), KV(1, "rel_path", "pkg"),
       K(0, "qlib_init"), KV(1, "region", "cn") >>

PartialText ==
    << K(0, "sys"), KV(1, "path", "/opt/lib"), K(1, "rel_path"),
       K(0, "qlib_init"), KV(1, "region", "cn") >>
    \o TaskLines(<<>>)

NoInitText == TaskLines(<<Lit("false")>>)

\* the file system: regular files, by the segments of their absolute path
Files ==
    { [at |-> <<"proj", "configs", "child.yaml">>,     text |-> ChildText],
      [at |-> <<"proj", "configs", "base.yaml">>,      text |-> BaseText],
      [at |-> <<"proj", "configs", "grand.yaml">>,     text |-> GrandText],
      [at |-> <<"proj", "configs", "both.yaml">>,      text |-> BothText],
      [at |-> <<"proj", "configs", "both_base.yaml">>, text |-> BothBaseConfText],
      [at |-> <<"work", "both_base.yaml">>,            text |-> BothBaseCwdText],
      [at |-> <<"proj", "configs", "plain.yaml">>,     text |-> PlainText],
      [at |-> <<"proj", "configs", "tmpl.yaml">>,      text |-> TmplText],
      [at |-> <<"proj", "configs", "nobase.yaml">>,    text |-> NoBaseText],
      [at |-> <<"proj", "configs", "badtmpl.yaml">>,   text |-> BadTmplText],
      [at |-> <<"proj", "configs", "badyaml.yaml">>,   text |-> BadYamlText],
      [at |-> <<"proj", "configs", "notask.yaml">>,    text |-> NoTaskText],
      [at |-> <<"proj", "configs", "noinit.yaml">>,    text |-> NoInitText],
      [at |-> <<"proj", "configs", "partial.yaml">>,   text |-> PartialText],
      [at |-> <<"proj", "lib", "mod.py">>,             text |-> <<>>] }

IsFile(segs) == \E f \in Files : f.at = segs

IsDir(segs) ==
    \E f \in Files : Len(segs) < Len(f.at) /\ SubSeq(f.at, 1, Len(segs)) = segs

\* the walk the operating system makes along an absolute path: every
\* component before the last must be a directory, ".." steps to the parent;
\* <<"?">> when a component does not exist
RECURSIVE Walk(_, _)
Walk(segs, at) ==
    IF ~(IsDir(at) \/ (segs = <<>> /\ IsFile(at))) THEN <<"?">>
    ELSE IF segs = <<>> THEN at
    ELSE IF segs[1] = ".."
         THEN Walk(Tail(segs), IF at = <<>> THEN at ELSE SubSeq(at, 1, Len(at) - 1))
         ELSE Walk(Tail(segs), Append(at, segs[1]))

\* path.exists(): true of files and of directories
Exists(p) == Walk(Absolute(p).segs, <<>>) # <<"?">>

\* open(path) succeeds on regular files only
CanOpen(p) == IsFile(Walk(Absolute(p).segs, <<>>))

ReadText(p) ==
    (CHOOSE f \in Files : f.at = Walk(Absolute(p).segs, <<>>)).text

(***************************************************************************)
(* Documents: the values yaml.load returns.                                *)
(***************************************************************************)
Null == [t |-> "n"]

Scalar(s) == [t |-> "s", s |-> s]

List(l) == [t |-> "l", l |-> l]

Map(m) == [t |-> "m", m |-> m]

Failed == [t |-> "err"]

IsMap(v) == v.t = "m"

\* k in d, for a mapping d
Has(d, k) == IsMap(d) /\ k \in DOMAIN d.m

\* d.get(k, default), for a mapping d
Get(d, k, default) == IF k \in DOMAIN d.m THEN d.m[k] ELSE default

\* Python truth of a loaded value (YAML false and 0 load as falsy scalars)
Truthy(v) ==
    CASE v.t = "n" -> FALSE
      [] v.t = "s" -> v.s \notin {"", "false", "0"}
      [] v.t = "l" -> v.l # <<>>
      [] v.t = "m" -> DOMAIN v.m # {}
      [] OTHER     -> FALSE

(***************************************************************************)
(* render_template: jinja2 rendering against os.environ.                   *)
(***************************************************************************)
RECURSIVE Concat(_)
Concat(strs) == IF strs = <<>> THEN "" ELSE strs[1] \o Concat(Tail(strs))

Tokens(text) == UNION { { text[i].val[j] : j \in 1..Len(text[i].val) } : i \in 1..Len(text) }

\* Template(config): the text must be a well-formed template
TemplateOk(text) == \A tk \in Tokens(text) : tk.k # "bad"

\* meta.find_undeclared_variables(parsed_content)
UndeclaredVariables(text) == { tk.s : tk \in { u \in Tokens(text) : u.k = "var" } }

\* every referenced name put in the context, the unset ones as ""
AllVariablesContext(text, env) ==
    [ v \in UndeclaredVariables(text) |-> IF v \in DOMAIN env THEN env[v] ELSE "" ]

\* line 77: {var: os.getenv(var, "") for var in variables if var in os.environ}
Context(text, env) ==
    [ v \in { x \in UndeclaredVariables(text) : x \in DOMAIN env } |-> env[v] ]

\* template.render(context): a name missing from the context is jinja2's
\* Undefined, which prints as the empty string
RenderToken(tk, context) ==
    IF tk.k = "var" THEN (IF tk.s \in DOMAIN context THEN context[tk.s] ELSE "")
    ELSE tk.s

RenderVal(val, context) == Concat([ j \in 1..Len(val) |-> RenderToken(val[j], context) ])

Render(text, context) ==
    [ i \in 1..Len(text) |->
        [ind |-> text[i].ind, key |-> text[i].key, val |-> RenderVal(text[i].val, context)] ]

\* the text of a file read without rendering: placeholders stay as written
RawToken(tk) == IF tk.k = "var" THEN "{{" \o tk.s \o "}}" ELSE tk.s

Raw(text) ==
    [ i \in 1..Len(text) |->
        [ind |-> text[i].ind, key |-> text[i].key,
         val |-> Concat([ j \in 1..Len(text[i].val) |-> RawToken(text[i].val[j]) ])] ]

(***************************************************************************)
(* YAML(typ="safe").load on rendered lines [ind, key, val : string].       *)
(***************************************************************************)
\* the lines below head i that belong to it: up to the next line at depth d
BodyEnd(ls, i, d) ==
    IF \E j \in (i+1)..Len(ls) : ls[j].ind <= d
    THEN (CHOOSE j \in (i+1)..Len(ls) :
             ls[j].ind <= d /\ \A n \in (i+1)..(j-1) : ls[n].ind > d) - 1
    ELSE Len(ls)

RECURSIVE Load(_)
Load(ls) ==
    IF ls = <<>> THEN Null
    ELSE
    LET d     == ls[1].ind
        heads == { i \in 1..Len(ls) : ls[i].ind = d }
        body(i) == SubSeq(ls, i + 1, BodyEnd(ls, i, d))
        value(i) == IF body(i) = <<>>
                    THEN (IF ls[i].val = "" THEN Null ELSE Scalar(ls[i].val))
                    ELSE Load(body(i))
        keys  == { ls[i].key : i \in heads }
        order == [ n \in 1..Cardinality(heads) |->
                     CHOOSE i \in heads : Cardinality({ h \in heads : h < i }) = n - 1 ]
    IN  IF \E i \in 1..Len(ls) : ls[i].ind < d THEN Failed
        ELSE IF \E i \in heads : body(i) # <<>> /\ (ls[i].val # "" \/ value(i) = Failed)
        THEN Failed
        ELSE IF ls[1].key = "-"
        THEN (IF \A i \in heads : ls[i].key = "-" /\ body(i) = <<>>
              THEN List([ n \in 1..Cardinality(heads) |-> ls[order[n]].val ])
              ELSE Failed)
        ELSE IF \E i \in heads : ls[i].key = "-" THEN Failed
        ELSE IF Cardinality(keys) # Cardinality(heads) THEN Failed
        ELSE Map([ k \in keys |-> value(CHOOSE i \in heads : ls[i].key = k) ])

(***************************************************************************)
(* qlib.utils.data.update_config: the deep merge of a base and a child.    *)
(***************************************************************************)
RECURSIVE update_config(_, _)
update_config(base, ext) ==
    IF ~IsMap(base) \/ ~IsMap(ext) THEN Failed
    ELSE Map([ k \in DOMAIN base.m \cup DOMAIN ext.m |->
                 IF k \notin DOMAIN ext.m THEN base.m[k]
                 ELSE IF k \notin DOMAIN base.m THEN ext.m[k]
                 ELSE IF IsMap(base.m[k]) /\ IsMap(ext.m[k])
                      THEN update_config(base.m[k], ext.m[k])
                      ELSE ext.m[k] ])

(***************************************************************************)
(* The process: its environment, its module search path, the global        *)
(* default experiment manager C["exp_manager"], and the locals and effects *)
(* of the workflow() invocation in progress.                               *)
(***************************************************************************)
VARIABLES
    environ,          \* os.environ
    sys_path,         \* sys.path
    C_exp_manager,    \* C["exp_manager"]: [uri]
    pc,               \* stage the invocation has reached, "idle" between invocations
    request,          \* the arguments workflow() was called with
    config_path,      \* argument
    experiment_name,  \* argument, rebound at line 149
    uri_folder,       \* argument
    context,          \* render_template: the substitution context
    rendered_yaml,    \* render_template's result
    loaded,           \* the document yaml.load returned at line 108
    config,           \* the document bound to `config'
    path,             \* the location chosen for the base configuration
    base_config,      \* the document loaded from it
    log,              \* logger.info records of the invocation
    error,            \* the exception that aborted the invocation
    wandb_session,    \* wandb.init call
    qlib_init_call,   \* qlib.init call
    trained,          \* task_train call
    saved,            \* recorder.save_objects call
    stages,           \* stages completed by the invocation, in order
    runs,             \* invocations started
    injections,       \* what each invocation that ran sys_config appended, in order
    last              \* config_path and resolved document of the previous invocation

globals == <<environ, sys_path, C_exp_manager>>

args == <<config_path, experiment_name, uri_folder>>

locals == <<context, rendered_yaml, loaded, config, path, base_config>>

effects == <<wandb_session, qlib_init_call, trained, saved>>

history == <<runs, injections, last>>

vars == <<globals, pc, request, args, locals, log, error, effects, stages, history>>

NoEnv == [ v \in {} |-> "" ]

Envs ==
    { NoEnv,
      [X |-> "v", WANDB |-> "true", BASE |-> "/proj/configs/base.yaml"],
      [X |-> "w", BASE |-> "missing.yaml", MGR |-> "custom"],
      [X |-> "", BASE |-> "/proj/lib"] }

ConfigPaths ==
    { "/proj/configs/child.yaml", "../proj/configs/child.yaml",
      "/proj/configs/both.yaml", "/proj/configs/plain.yaml",
      "/proj/configs/tmpl.yaml", "/proj/configs/nobase.yaml",
      "/proj/configs/absent.yaml", "/proj/configs/badtmpl.yaml",
      "/proj/configs/badyaml.yaml", "/proj/configs/notask.yaml",
      "/proj/configs/noinit.yaml", "/proj/configs/partial.yaml" }

\* experiment_name and uri_folder: the defaults of line 86, or both given
Invocations == { <<"workflow", "mlruns">>, <<"exp1", "runs">> }

InitSysPath == << "/usr/lib/python3" >>

NoPath == Rel(<<"?">>)

NoError == [type |-> "", msg |-> <<>>]

NoCall == [called |-> FALSE]

NoRequest == [config_path |-> "", experiment_name |-> "", uri_folder |-> ""]

NoLast == [config_path |-> "", config |-> Null]

Init ==
    /\ environ \in Envs
    /\ sys_path = InitSysPath
    /\ C_exp_manager = [uri |-> "file:mlruns_default"]
    /\ pc = "idle"
    /\ request = NoRequest
    /\ config_path = ""
    /\ experiment_name = Null
    /\ uri_folder = ""
    /\ context = NoEnv
    /\ rendered_yaml = <<>>
    /\ loaded = Null
    /\ config = Null
    /\ path = NoPath
    /\ base_config = Null
    /\ log = <<>>
    /\ error = NoError
    /\ wandb_session = NoCall
    /\ qlib_init_call = NoCall
    /\ trained = NoCall
    /\ saved = NoCall
    /\ stages = <<>>
    /\ runs = 0
    /\ injections = <<>>
    /\ last = NoLast

\* the exception is recorded and the stage is tried again
RaiseAndRetry(type, msg) ==
    /\ pc' = pc
    /\ error' = [type |-> type, msg |-> msg]

\* an exception leaves workflow(): nothing after the raise is executed
Raise(type, msg) ==
    /\ pc' = "Aborted"
    /\ error' = [type |-> type, msg |-> msg]

Advance(stage) ==
    /\ pc' = stage
    /\ stages' = Append(stages, stage)
    /\ error' = error

\* workflow(config_path, experiment_name="workflow", uri_folder="mlruns") is entered
Start(cp, en, uf) ==
    /\ pc = "idle"
    /\ runs < MaxRuns
    /\ pc' = "Started"
    /\ request' = [config_path |-> cp, experiment_name |-> en, uri_folder |-> uf]
    /\ config_path' = cp
    /\ experiment_name' = Scalar(en)
    /\ uri_folder' = uf
    /\ runs' = runs + 1
    /\ UNCHANGED <<globals, locals, log, error, effects, stages, injections, last>>

\* rendered_yaml = render_template(config_path)
render_template ==
    /\ pc = "Started"
    /\ IF ~CanOpen(Path(config_path))
       THEN /\ Raise("OSError", <<config_path>>)
            /\ UNCHANGED <<context, rendered_yaml, log, stages>>
       ELSE LET text == ReadText(Path(config_path)) IN
            IF ~TemplateOk(text)
            THEN /\ Raise("TemplateSyntaxError", <<>>)
                 /\ UNCHANGED <<context, rendered_yaml, log, stages>>
            ELSE /\ context' = Context(text, environ)
                 /\ log' = Append(log, <<"Render the template with the context: ">>)
                 /\ rendered_yaml' = Render(text, context')
                 /\ Advance("Rendered")
    /\ UNCHANGED <<globals, request, args, loaded, config, path, base_config, effects, history>>

\* config = yaml.load(rendered_yaml)
Parse ==
    /\ pc = "Rendered"
    /\ LET doc == Load(rendered_yaml) IN
       IF doc = Failed
       THEN /\ Raise("YAMLError", <<>>)
            /\ UNCHANGED <<loaded, config, stages>>
       ELSE /\ loaded' = doc
            /\ config' = doc
            /\ Advance("Parsed")
    /\ UNCHANGED <<globals, request, args, context, rendered_yaml, path, base_config, log, effects, history>>

\* the configuration file's directory searched before the path as given
ChooseBaseNextToConfigFirst(base_config_path, cp) ==
    LET relative_path == JoinPath(Parent(Absolute(Path(cp))), base_config_path)
    IN  IF Exists(relative_path) THEN relative_path
        ELSE IF Exists(base_config_path) THEN base_config_path ELSE NoPath

\* lines 116-127: the path as given first, then relative to the directory
\* of the configuration file; NoPath when neither exists
ChooseBase(base_config_path, cp) ==
    IF Exists(base_config_path) THEN base_config_path
    ELSE LET relative_path == JoinPath(Parent(Absolute(Path(cp))), base_config_path)
         IN  IF Exists(relative_path) THEN relative_path ELSE NoPath

\* the message extended by the locations that were tried
NotFoundMessageWithLocations(base_config_path, cp) ==
    <<"Can't find the BASE_CONFIG file: ", PathStr(base_config_path), " in ",
      PathStr(Absolute(base_config_path)), " or ",
      PathStr(JoinPath(Parent(Absolute(Path(cp))), base_config_path))>>

\* line 127: the message of the FileNotFoundError
NotFoundMessage(base_config_path, cp) ==
    <<"Can't find the BASE_CONFIG file: ", PathStr(base_config_path)>>

\* the base's own BASE_CONFIG_PATH followed one level further
LoadBaseChained(p) ==
    LET base == Load(Raw(ReadText(p)))
        further == IF Has(base, "BASE_CONFIG_PATH") /\ base.m["BASE_CONFIG_PATH"].t = "s"
                   THEN ChooseBase(Path(base.m["BASE_CONFIG_PATH"].s), PathStr(Absolute(p)))
                   ELSE NoPath
    IN  IF further = NoPath \/ ~CanOpen(further) THEN base
        ELSE update_config(Load(Raw(ReadText(further))), base)

\* lines 129-131: the base file goes to yaml.load as it is, unrendered, and
\* its own BASE_CONFIG_PATH is not looked at
LoadBase(p) == Load(Raw(ReadText(p)))

\* the arguments of update_config exchanged: the base overrides the child
MergeBaseOverChild(base, child) == update_config(child, base)

\* line 133
MergeBase(base, child) == update_config(base, child)

\* lines 110-133
BaseResolve ==
    /\ pc = "Parsed"
    /\ IF ~IsMap(config)
       THEN /\ Raise("AttributeError", <<"get">>)
            /\ UNCHANGED <<config, path, base_config, log, stages>>
       ELSE LET value == Get(config, "BASE_CONFIG_PATH", Null) IN
       IF ~Truthy(value)
       THEN /\ Advance("BaseResolved")
            /\ UNCHANGED <<config, path, base_config, log>>
       ELSE IF value.t # "s"
       THEN /\ Raise("TypeError", <<"Path">>)
            /\ log' = Append(log, <<"Use BASE_CONFIG_PATH: ">>)
            /\ UNCHANGED <<config, path, base_config, stages>>
       ELSE
       LET base_config_path == Path(value.s)
           chosen == ChooseBase(base_config_path, config_path)
           use    == <<"Use BASE_CONFIG_PATH: ", PathStr(base_config_path)>>
           try    == <<"Can't find BASE_CONFIG_PATH base on: ", PathStr(Cwd),
                       ", try using relative path to config path: ",
                       PathStr(Absolute(Path(config_path)))>>
           tried  == IF chosen = base_config_path THEN <<use>> ELSE <<use, try>>
       IN  IF chosen = NoPath
           THEN /\ Raise("FileNotFoundError", NotFoundMessage(base_config_path, config_path))
                /\ log' = log \o tried
                /\ UNCHANGED <<config, path, base_config, stages>>
           ELSE /\ path' = chosen
                /\ IF ~CanOpen(chosen)
                   THEN /\ Raise("OSError", <<PathStr(chosen)>>)
                        /\ log' = log \o tried
                        /\ UNCHANGED <<config, base_config, stages>>
                   ELSE /\ base_config' = LoadBase(chosen)
                        /\ IF base_config' = Failed
                           THEN /\ Raise("YAMLError", <<>>)
                                /\ log' = log \o tried
                                /\ UNCHANGED <<config, stages>>
                           ELSE /\ log' = log \o tried
                                       \o << <<"Load BASE_CONFIG_PATH succeed: ",
                                               PathStr(Resolve(chosen))>> >>
                                /\ IF MergeBase(base_config', config) = Failed
                                   THEN /\ Raise("TypeError", <<"update_config">>)
                                        /\ UNCHANGED <<config, stages>>
                                   ELSE /\ config' = MergeBase(base_config', config)
                                        /\ Advance("BaseResolved")
    /\ UNCHANGED <<globals, request, args, context, rendered_yaml, loaded, effects, history>>

\* lines 23-27; the `sys' entries of the modelled configurations are
\* strings, sequences or absent
get_path_list(v) ==
    CASE v.t = "s" -> <<v.s>>
      [] v.t = "l" -> v.l

RECURSIVE AppendAllUnique(_, _)
\* entries already on the search path are not appended again
AppendAllUnique(sp, entries) ==
    IF entries = <<>> THEN sp
    ELSE AppendAllUnique(IF \E i \in 1..Len(sp) : sp[i] = entries[1] THEN sp
                         ELSE Append(sp, entries[1]), Tail(entries))

\* lines 44-45, 48-49: for p in ...: sys.path.append(p)
AppendAll(sp, entries) == sp \o entries

\* the directory of the configuration file left as given, not resolved
RelPathEntryUnresolved(cp, p) == PathStr(JoinPath(Parent(Path(cp)), Path(p)))

\* line 49: str(Path(config_path).parent.resolve().absolute() / p)
RelPathEntry(cp, p) == PathStr(JoinPath(Absolute(Resolve(Parent(Path(cp)))), Path(p)))

RelPathEntries(cp, paths) == [ i \in 1..Len(paths) |-> RelPathEntry(cp, paths[i]) ]

\* line 136: sys_config(config, config_path), lines 30-49
sys_config ==
    /\ pc = "BaseResolved"
    /\ LET section == Get(config, "sys", Map(NoEnv)) IN
       IF ~IsMap(section)
       THEN /\ Raise("AttributeError", <<"get">>)
            /\ UNCHANGED <<sys_path, stages, injections>>
       ELSE LET abs == Get(section, "path", List(<<>>))
                rel == Get(section, "rel_path", List(<<>>))
            IN  IF abs.t = "n"
                THEN /\ Raise("TypeError", <<"list">>)
                     /\ UNCHANGED <<sys_path, stages, injections>>
                ELSE IF rel.t = "n"
                THEN /\ Raise("TypeError", <<"list">>)
                     /\ sys_path' = AppendAll(sys_path, get_path_list(abs))
                     /\ injections' = Append(injections,
                            [config_path |-> config_path, entries |-> get_path_list(abs)])
                     /\ UNCHANGED stages
                ELSE /\ sys_path' = AppendAll(AppendAll(sys_path, get_path_list(abs)),
                                              RelPathEntries(config_path, get_path_list(rel)))
                     /\ injections' = Append(injections,
                            [config_path |-> config_path,
                             entries |-> get_path_list(abs)
                                         \o RelPathEntries(config_path, get_path_list(rel))])
                     /\ Advance("PathsInjected")
    /\ UNCHANGED <<environ, C_exp_manager, request, args, locals, log, effects, runs, last>>

\* config["task"]["model"]["kwargs"], Failed when a key or a mapping is missing
TaskKwargs(doc) ==
    IF ~Has(doc, "task") THEN Failed
    ELSE IF ~Has(doc.m["task"], "model") THEN Failed
    ELSE IF ~Has(doc.m["task"].m["model"], "kwargs") THEN Failed
    ELSE doc.m["task"].m["model"].m["kwargs"]

\* str(Path(os.getcwd()).resolve() / uri_folder)
UriDir(uf) == PathStr(JoinPath(Resolve(Cwd), Path(uf)))

\* lines 138-139: the secondary tracking session
PrepareTracking ==
    /\ pc = "PathsInjected"
    /\ LET kwargs == TaskKwargs(config) IN
       IF kwargs = Failed \/ ~IsMap(kwargs)
       THEN /\ Raise("KeyError", <<"task">>)
            /\ UNCHANGED <<wandb_session, stages>>
       ELSE IF ~Truthy(Get(kwargs, "wandb", Null))
       THEN /\ Advance("TrackingPrepared")
            /\ UNCHANGED wandb_session
       ELSE IF ~Has(config, "wandb_name")
       THEN /\ Raise("KeyError", <<"wandb_name">>)
            /\ UNCHANGED <<wandb_session, stages>>
       ELSE \E ok \in BOOLEAN :
              IF ok
              THEN /\ wandb_session' = [called |-> TRUE, project |-> "qlib", dir |-> UriDir(uri_folder),
                                        config |-> config, name |-> config.m["wandb_name"]]
                   /\ Advance("TrackingPrepared")
              ELSE /\ Raise("WandbError", <<>>)
                   /\ UNCHANGED <<wandb_session, stages>>
    /\ UNCHANGED <<globals, request, args, locals, log, qlib_init_call, trained, saved, history>>

\* line 141
ExplicitManager(qlib_init) == "exp_manager" \in DOMAIN qlib_init.m

\* the uri without its scheme
DefaultUriNoScheme(uf) == UriDir(uf)

\* line 145
DefaultUri(uf) == "file:" \o UriDir(uf)

\* lines 141-146: the runtime is initialised with the user's manager or
\* with the default one
EnvInit ==
    /\ pc = "TrackingPrepared"
    /\ LET qlib_init == Get(config, "qlib_init", Null) IN
       IF ~IsMap(qlib_init)
       THEN /\ Raise("TypeError", <<"qlib_init">>)
            /\ UNCHANGED <<C_exp_manager, qlib_init_call, stages>>
       ELSE \E ok \in BOOLEAN :
            /\ IF ExplicitManager(qlib_init)
               THEN C_exp_manager' = C_exp_manager
               ELSE C_exp_manager' = [C_exp_manager EXCEPT !.uri = DefaultUri(uri_folder)]
            /\ IF ok
               THEN /\ qlib_init_call' =
                         [called |-> TRUE, kwargs |-> qlib_init,
                          default_manager |-> ~ExplicitManager(qlib_init),
                          exp_manager |-> C_exp_manager']
                    /\ Advance("EnvInitialized")
               ELSE /\ Raise("InitError", <<>>)
                    /\ UNCHANGED <<qlib_init_call, stages>>
    /\ UNCHANGED <<environ, sys_path, request, args, locals, log, wandb_session, trained, saved,
                   history>>

\* the caller's name kept unless it is the default one
EffectiveNameCallerFirst(doc, name) ==
    IF name # Scalar("workflow") THEN name
    ELSE IF "experiment_name" \in DOMAIN doc.m THEN doc.m["experiment_name"] ELSE name

\* lines 148-149
EffectiveName(doc, name) ==
    IF "experiment_name" \in DOMAIN doc.m THEN doc.m["experiment_name"] ELSE name

\* lines 148-150: recorder = task_train(config.get("task"), experiment_name=experiment_name)
Train ==
    /\ pc = "EnvInitialized"
    /\ experiment_name' = EffectiveName(config, experiment_name)
    /\ \E ok \in BOOLEAN :
          IF ok
          THEN /\ trained' = [called |-> TRUE, task |-> Get(config, "task", Null),
                              experiment_name |-> experiment_name']
               /\ Advance("Trained")
          ELSE /\ Raise("TrainingError", <<>>)
               /\ UNCHANGED <<trained, stages>>
    /\ UNCHANGED <<globals, request, config_path, uri_folder, locals, log, wandb_session,
                   qlib_init_call, saved, history>>

\* line 151: recorder.save_objects(config=config)
Persist ==
    /\ pc = "Trained"
    /\ \E ok \in BOOLEAN :
          IF ok
          THEN /\ saved' = [called |-> TRUE, config |-> config]
               /\ Advance("Persisted")
          ELSE /\ Raise("SaveError", <<>>)
               /\ UNCHANGED <<saved, stages>>
    /\ UNCHANGED <<globals, request, args, locals, log, wandb_session, qlib_init_call, trained,
                   history>>

\* workflow() returns or the exception reaches the caller; the next
\* invocation starts from fresh locals
Return ==
    /\ pc \in {"Persisted", "Aborted"}
    /\ pc' = "idle"
    /\ request' = NoRequest
    /\ last' = IF \E i \in 1..Len(stages) : stages[i] = "BaseResolved"
               THEN [config_path |-> config_path, config |-> config]
               ELSE last
    /\ config_path' = ""
    /\ experiment_name' = Null
    /\ uri_folder' = ""
    /\ context' = NoEnv
    /\ rendered_yaml' = <<>>
    /\ loaded' = Null
    /\ config' = Null
    /\ path' = NoPath
    /\ base_config' = Null
    /\ log' = <<>>
    /\ error' = NoError
    /\ wandb_session' = NoCall
    /\ qlib_init_call' = NoCall
    /\ trained' = NoCall
    /\ saved' = NoCall
    /\ stages' = <<>>
    /\ UNCHANGED <<globals, runs, injections>>

Next ==
    \/ \E cp \in ConfigPaths, inv \in Invocations : Start(cp, inv[1], inv[2])
    \/ render_template
    \/ Parse
    \/ BaseResolve
    \/ sys_config
    \/ PrepareTracking
    \/ EnvInit
    \/ Train
    \/ Persist
    \/ Return

Spec == Init /\ [][Next]_vars

(***************************************************************************)
(* Properties.                                                             *)
(***************************************************************************)
Acted(stage) == \E i \in 1..Len(stages) : stages[i] = stage

\* the step after `stage' has just been taken, successfully or not
Stepped(stage, next) ==
    \/ pc = next
    \/ pc = "Aborted" /\ stages # <<>> /\ stages[Len(stages)] = stage

Names(msg, str) == \E i \in 1..Len(msg) : msg[i] = str

\* the BASE_CONFIG_PATH the loaded document names, when it names one
NamesBase == Has(loaded, "BASE_CONFIG_PATH") /\ Truthy(loaded.m["BASE_CONFIG_PATH"])
                /\ loaded.m["BASE_CONFIG_PATH"].t = "s"

GivenBase == Path(loaded.m["BASE_CONFIG_PATH"].s)

\* <absolute directory of config_path>/P
NextToConfig == JoinPath(Parent(Absolute(Path(request.config_path))), GivenBase)

OnDisk(p) == LET at == Collapse(Absolute(p).segs, <<>>) IN IsFile(at) \/ IsDir(at)

RegularFile(p) == IsFile(Collapse(Absolute(p).segs, <<>>))

\* C1: a named base P is taken from P as given when that exists, even when
\* <directory of config_path>/P exists too; otherwise from
\* <directory of config_path>/P when that exists, and resolution succeeds;
\* otherwise the run aborts with a not-found error naming P and nothing is
\* merged.
C1_BaseLocation ==
    (Stepped("Parsed", "BaseResolved") /\ NamesBase) =>
        IF OnDisk(GivenBase)
        THEN /\ path = GivenBase
             /\ RegularFile(GivenBase) => base_config = Load(Raw(ReadText(GivenBase)))
        ELSE IF OnDisk(NextToConfig)
        THEN /\ path = NextToConfig
             /\ RegularFile(NextToConfig) =>
                   /\ base_config = Load(Raw(ReadText(NextToConfig)))
                   /\ Acted("BaseResolved")
        ELSE /\ pc = "Aborted"
             /\ error.type = "FileNotFoundError"
             /\ Names(error.msg, PathStr(GivenBase))
             /\ base_config = Null
             /\ config = loaded

\* the as-given location wins over a file next to the configuration file
C1_Witness ==
    /\ pc = "BaseResolved"
    /\ NamesBase
    /\ OnDisk(GivenBase) /\ OnDisk(NextToConfig) /\ GivenBase # NextToConfig
    /\ path = GivenBase
    /\ config.m["origin"] = Scalar("cwd")

RECURSIVE Merged(_, _, _)
\* result is base overridden by child, leaf by leaf
Merged(base, child, result) ==
    /\ IsMap(result)
    /\ DOMAIN result.m = DOMAIN base.m \cup DOMAIN child.m
    /\ \A k \in DOMAIN result.m :
          IF k \notin DOMAIN child.m THEN result.m[k] = base.m[k]
          ELSE IF k \notin DOMAIN base.m THEN result.m[k] = child.m[k]
          ELSE IF IsMap(base.m[k]) /\ IsMap(child.m[k])
               THEN Merged(base.m[k], child.m[k], result.m[k])
               ELSE result.m[k] = child.m[k]

IsChildRun == request.config_path \in {"/proj/configs/child.yaml", "../proj/configs/child.yaml"}

\* C2: the resolved document is the base overridden by the child: child
\* leaves win, keys only in the base survive, nested mappings merge
\* recursively, scalars and sequences are replaced wholesale; base
\* {a:1, b:{x:1, y:2}} and child {b:{x:9}, c:3} give {a:1, b:{x:9, y:2}, c:3}.
C2_MergePrecedence ==
    (pc = "BaseResolved" /\ base_config # Null) =>
        /\ Merged(base_config, loaded, config)
        /\ IsChildRun =>
              /\ config.m["a"] = Scalar("1")
              /\ config.m["b"] = Map([x |-> Scalar("9"), y |-> Scalar("2")])
              /\ config.m["c"] = Scalar("3")
              /\ config.m["marks"] = List(<<"m3">>)

C2_Witness ==
    /\ pc = "BaseResolved"
    /\ IsChildRun
    /\ base_config.m["b"] = Map([x |-> Scalar("1"), y |-> Scalar("2")])
    /\ base_config.m["marks"] = List(<<"m1", "m2">>)
    /\ loaded.m["b"] = Map([x |-> Scalar("9")])
    /\ config.m["b"] = Map([x |-> Scalar("9"), y |-> Scalar("2")])

ConfigDir == Resolve(Parent(Path(request.config_path)))

\* the rel_path entries of the resolved document, for a run that injected them
RelPaths ==
    IF Has(config, "sys") /\ Has(config.m["sys"], "rel_path")
    THEN get_path_list(config.m["sys"].m["rel_path"])
    ELSE <<>>

\* the entries of sys.path this invocation appended for rel_path
RelTail == SubSeq(sys_path, Len(sys_path) - Len(RelPaths) + 1, Len(sys_path))

\* C3 as claimed: every rel_path entry is appended as the normalised absolute
\* path of the entry resolved against the configuration file's directory,
\* with ".." collapsed ("../lib" next to /proj/configs/child.yaml gives /proj/lib).
C3_AppendsNormalized ==
    pc = "PathsInjected" =>
        RelTail = [ i \in 1..Len(RelPaths) |->
                      PathStr(Resolve(JoinPath(ConfigDir, Path(RelPaths[i])))) ]

\* C3 as amended: every rel_path entry p is appended as the string of
\* <resolved absolute directory of the configuration file>/p; the ".."
\* segments of p itself are kept ("../lib" gives /proj/configs/../lib), and an
\* absolute p is appended as p.
C3_AppendsJoined ==
    pc = "PathsInjected" =>
        RelTail = [ i \in 1..Len(RelPaths) |->
                      IF Path(RelPaths[i]).abs THEN RelPaths[i]
                      ELSE PathStr(ConfigDir) \o "/" \o RelPaths[i] ]

C3_Witness ==
    /\ pc = "PathsInjected"
    /\ request.config_path = "../proj/configs/child.yaml"
    /\ RelPaths = <<"../lib", "pkg">>
    /\ RelTail = <<"/proj/configs/../lib", "/proj/configs/pkg">>

\* C4: the runtime is initialised by one of two branches: with qlib_init as
\* given when it has an exp_manager key, and otherwise with qlib_init plus the
\* default manager whose uri is "file:" followed by <absolute cwd>/<uri_folder>.
C4_ManagerDispatch ==
    qlib_init_call.called =>
        /\ qlib_init_call.kwargs = config.m["qlib_init"]
        /\ IF "exp_manager" \in DOMAIN config.m["qlib_init"].m
           THEN ~qlib_init_call.default_manager
           ELSE /\ qlib_init_call.default_manager
                /\ qlib_init_call.exp_manager.uri = "file:" \o "/work" \o "/" \o request.uri_folder

C4_Witness ==
    /\ pc = "EnvInitialized"
    /\ "exp_manager" \notin DOMAIN config.m["qlib_init"].m
    /\ request.uri_folder = "mlruns"
    /\ qlib_init_call.default_manager
    /\ qlib_init_call.exp_manager.uri = "file:/work/mlruns"

\* C5: the trainer gets the resolved document's experiment_name when the
\* key is present, also when only the base has it, and the caller's argument
\* only when the resolved document has no such key.
C5_EffectiveName ==
    trained.called =>
        trained.experiment_name =
            IF "experiment_name" \in DOMAIN config.m
            THEN config.m["experiment_name"]
            ELSE Scalar(request.experiment_name)

C5_Witness ==
    /\ pc = "Trained"
    /\ request.experiment_name = "exp1"
    /\ ~Has(loaded, "experiment_name")
    /\ Has(base_config, "experiment_name")
    /\ trained.experiment_name = Scalar("base_exp")

RequestText == ReadText(Path(request.config_path))

\* the value a placeholder stands for in os.environ
EnvValue(tk) ==
    IF tk.k = "var" THEN (IF tk.s \in DOMAIN environ THEN environ[tk.s] ELSE "") ELSE tk.s

\* C6: rendering does not fail on a missing variable: every placeholder set
\* in the environment is replaced by its value, every other placeholder by
\* the empty string, and the context holds exactly the referenced names that
\* are set in the environment.
C6_RenderDefaults ==
    /\ (pc = "Aborted" /\ stages = <<>>) =>
          ~CanOpen(Path(request.config_path)) \/ ~TemplateOk(RequestText)
    /\ pc = "Rendered" =>
          /\ Len(rendered_yaml) = Len(RequestText)
          /\ \A i \in 1..Len(RequestText) :
                rendered_yaml[i].val =
                    Concat([ j \in 1..Len(RequestText[i].val) |-> EnvValue(RequestText[i].val[j]) ])
          /\ DOMAIN context = UndeclaredVariables(RequestText) \cap DOMAIN environ
          /\ \A v \in DOMAIN context : context[v] = environ[v]

C6_Witness ==
    /\ pc = "Rendered"
    /\ request.config_path = "/proj/configs/tmpl.yaml"
    /\ "X" \in DOMAIN environ /\ environ["X"] = "w"
    /\ "WANDB" \notin DOMAIN environ
    /\ rendered_yaml[2] = [ind |-> 0, key |-> "experiment_name", val |-> "exp_w"]
    /\ rendered_yaml[9] = [ind |-> 3, key |-> "wandb", val |-> ""]

RECURSIVE Flatten(_)
Flatten(recs) == IF recs = <<>> THEN <<>> ELSE recs[1].entries \o Flatten(Tail(recs))

Count(e, seq) == Cardinality({ i \in 1..Len(seq) : seq[i] = e })

IsPrefix(a, b) == Len(a) <= Len(b) /\ SubSeq(b, 1, Len(a)) = a

\* invocations of the configuration of injection i that injected so far
Copies(i) ==
    Cardinality({ j \in 1..Len(injections) :
                    injections[j].config_path = injections[i].config_path })

C7_State ==
    /\ (Acted("BaseResolved") /\ last.config_path = request.config_path) => config = last.config
    /\ sys_path = InitSysPath \o Flatten(injections)
    /\ \A i, j \in 1..Len(injections) :
          injections[i].config_path = injections[j].config_path
             => injections[i].entries = injections[j].entries
    /\ \A i \in 1..Len(injections) :
          \A n \in 1..Len(injections[i].entries) :
             Count(injections[i].entries[n], sys_path) >= Copies(i)

\* C7: resolving the same configuration again yields the same merged
\* document, while every invocation appends its sys.path and sys.rel_path
\* entries again: after n invocations the search path holds the entries n
\* times, and what was on the search path stays there in its order.
C7_ResolveIdempotentInjectNot ==
    /\ []C7_State
    /\ [][IsPrefix(sys_path, sys_path')]_vars

C7_Witness ==
    /\ pc = "PathsInjected"
    /\ runs = 2
    /\ last.config_path = request.config_path
    /\ config = last.config
    /\ Len(injections) = 2
    /\ Count("/proj/configs/../lib", sys_path) = 2
    /\ Count("/opt/lib", sys_path) = 2

BaseNotFound == pc = "Aborted" /\ error.type = "FileNotFoundError"

\* C8 as claimed: the error raised when neither location has the base names
\* the unresolved path, which is the location tried first, and the location
\* next to the configuration file.
C8_MessageNamesLocations ==
    BaseNotFound =>
        /\ Names(error.msg, PathStr(GivenBase))
        /\ Names(error.msg, PathStr(NextToConfig))

\* C8 as amended: the error message names the unresolved path value only;
\* the attempted locations are not in it, the current directory and the
\* absolute path of the configuration file are written to the log before
\* the error is raised.
C8_MessageNamesPathOnly ==
    BaseNotFound =>
        /\ error.msg = <<"Can't find the BASE_CONFIG file: ", PathStr(GivenBase)>>
        /\ NextToConfig # GivenBase => ~Names(error.msg, PathStr(NextToConfig))
        /\ \E i \in 1..Len(log) :
              /\ Names(log[i], PathStr(Cwd))
              /\ Names(log[i], PathStr(Absolute(Path(request.config_path))))

C8_Witness ==
    /\ BaseNotFound
    /\ request.config_path = "/proj/configs/nobase.yaml"
    /\ error.msg[2] = "missing.yaml"
    /\ PathStr(NextToConfig) = "/proj/configs/missing.yaml"

StageOrder ==
    << "Rendered", "Parsed", "BaseResolved", "PathsInjected", "TrackingPrepared",
       "EnvInitialized", "Trained", "Persisted" >>

C9_State ==
    /\ IsPrefix(stages, StageOrder)
    /\ error.type # "" <=> pc = "Aborted"
    /\ wandb_session.called => Acted("TrackingPrepared")
    /\ qlib_init_call.called => Acted("EnvInitialized")
    /\ trained.called => Acted("Trained") /\ qlib_init_call.called
    /\ saved.called => Acted("Persisted") /\ trained.called

C9_Step ==
    /\ pc' # pc
    /\ pc = "Aborted" => pc' = "idle" /\ UNCHANGED globals
    /\ sys_path' # sys_path => pc = "BaseResolved"
    /\ C_exp_manager' # C_exp_manager => pc = "TrackingPrepared"
    /\ (wandb_session' # wandb_session /\ pc' # "idle") => pc = "PathsInjected"
    /\ (qlib_init_call' # qlib_init_call /\ pc' # "idle") => pc = "TrackingPrepared"
    /\ (trained' # trained /\ pc' # "idle") => pc = "EnvInitialized"
    /\ (saved' # saved /\ pc' # "idle") => pc = "Trained"

\* C9: an invocation passes the stages Rendered .. Persisted in this order,
\* each at most once; a failure aborts it at once, no later stage or side
\* effect follows, no stage is retried, and the configuration is persisted
\* only after the trainer returned.
C9_LinearFailFast ==
    /\ []C9_State
    /\ [][C9_Step]_vars

C9_Witness ==
    /\ pc = "Aborted"
    /\ error.type = "TrainingError"
    /\ stages = SubSeq(StageOrder, 1, 6)
    /\ qlib_init_call.called
    /\ ~trained.called /\ ~saved.called

\* C10: a document that names no base is left as loaded; a base is loaded
\* as written, unrendered, and a BASE_CONFIG_PATH of the base is not
\* followed: the resolved document has values of the child and of its
\* direct base only.
C10_OneLevel ==
    /\ (pc = "BaseResolved" /\ ~(Has(loaded, "BASE_CONFIG_PATH")
                                     /\ Truthy(loaded.m["BASE_CONFIG_PATH"])))
          => config = loaded /\ base_config = Null /\ path = NoPath
    /\ (pc = "BaseResolved" /\ path # NoPath) =>
          /\ base_config = Load(Raw(ReadText(path)))
          /\ Merged(Load(Raw(ReadText(path))), loaded, config)
          /\ IsChildRun =>
                /\ "g" \notin DOMAIN config.m
                /\ config.m["a"] = Scalar("1")
                /\ config.m["note"] = Scalar("n_{{X}}")

C10_Witness ==
    /\ pc = "BaseResolved"
    /\ IsChildRun
    /\ base_config.m["BASE_CONFIG_PATH"] = Scalar("grand.yaml")
    /\ Exists(JoinPath(Parent(path), Path("grand.yaml")))
    /\ "X" \in DOMAIN environ /\ environ["X"] = "v"
    /\ config.m["note"] = Scalar("n_{{X}}")
    /\ "g" \notin DOMAIN config.m

====
